---- MODULE Spec2Model ----
(***************************************************************************)
(* Model of generate_app_icons.py: the __main__ block and generate_icons.  *)
(* One process runs the script to the end (exit 0, exit 1, or an uncaught  *)
(* exception); the operator may then invoke it again with the same         *)
(* arguments.  The file system (source file, output directory, the files   *)
(* in it) persists between invocations.                                    *)
(*                                                                         *)
(* A Python number is a record [isFloat, tenths]: 20 is the int 20,        *)
(* 83.5 is the float 83.5 (tenths = 835).  An image buffer is a record     *)
(* [w, h, mode, hist]; hist is the chain of PIL operations that produced   *)
(* its pixels from the decoded file, so a buffer resampled from a resized  *)
(* buffer differs from one resampled from the source.  A file on disk is   *)
(* the sequence of things written to it since it was last truncated.       *)
(***************************************************************************)
EXTENDS Integers, Sequences, FiniteSets, TLC

VARIABLES
    srcFile,      \* the file at source_path: [exists, decodable, w, h, mode]
    parentExists, \* the parent directory of output_dir exists
    dirState,     \* output_dir itself: "absent", "dir" or "file"
    canCreate,    \* the process may create directories on the way to output_dir
    disk,         \* files inside output_dir: name -> sequence of written items
    pc,           \* position of the running process
    run,          \* number of the current invocation
    source,       \* local variable source of generate_icons
    srcLoaded,    \* PIL has read the pixel data of the opened file
    k,            \* index into ICON_SIZES of the next loop iteration
    resized,      \* local variable resized of generate_icons
    images_info,  \* local variable images_info
    stdout,       \* lines printed by the current invocation
    writeLog,     \* file writes attempted by the current invocation
    exitStatus,   \* -1 while running, else the process exit status
    abortAt,      \* where the uncaught exception was raised ("" if none)
    faults,       \* write failures the environment has injected so far
    startDisk,    \* disk as it was when the current invocation started
    startDir,     \* dirState as it was when the current invocation started
    firstDone,    \* <<>> or <<disk at the first completed invocation>>
    outcomes      \* results of the finished earlier invocations

vars == <<srcFile, parentExists, dirState, canCreate, disk, pc, run, source,
          srcLoaded, k, resized, images_info, stdout, writeLog, exitStatus,
          abortAt, faults, startDisk, startDir, firstDone, outcomes>>

\* Bounds of the model.
MaxRuns == 2
MaxFaults == 1

----------------------------------------------------------------------------
\* Python numbers and their str()

PyInt(n) == [isFloat |-> FALSE, tenths |-> n * 10]
PyFloat(t) == [isFloat |-> TRUE, tenths |-> t]

Digits == <<"0", "1", "2", "3", "4", "5", "6", "7", "8", "9">>

RECURSIVE IntStr(_)
IntStr(n) == IF n < 10 THEN Digits[n + 1]
             ELSE IntStr(n \div 10) \o Digits[(n % 10) + 1]

\* str(x) as an f-string renders it: an int has no decimal point, a float
\* always has one.
PyStr(x) == IF x.isFloat
            THEN IntStr(x.tenths \div 10) \o "." \o IntStr(x.tenths % 10)
            ELSE IntStr(x.tenths \div 10)

----------------------------------------------------------------------------
\* The static table

Entry(p, s, i, f) == [size_pt |-> p, scale |-> s, idiom |-> i, filename |-> f]

ICON_SIZES == <<
    Entry(PyInt(20), 2, "iphone", "icon-20@2x.png"),
    Entry(PyInt(20), 3, "iphone", "icon-20@3x.png"),
    Entry(PyInt(29), 2, "iphone", "icon-29@2x.png"),
    Entry(PyInt(29), 3, "iphone", "icon-29@3x.png"),
    Entry(PyInt(40), 2, "iphone", "icon-40@2x.png"),
    Entry(PyInt(40), 3, "iphone", "icon-40@3x.png"),
    Entry(PyInt(60), 2, "iphone", "icon-60@2x.png"),
    Entry(PyInt(60), 3, "iphone", "icon-60@3x.png"),
    Entry(PyInt(20), 1, "ipad", "icon-20-ipad.png"),
    Entry(PyInt(20), 2, "ipad", "icon-20@2x-ipad.png"),
    Entry(PyInt(29), 1, "ipad", "icon-29-ipad.png"),
    Entry(PyInt(29), 2, "ipad", "icon-29@2x-ipad.png"),
    Entry(PyInt(40), 1, "ipad", "icon-40-ipad.png"),
    Entry(PyInt(40), 2, "ipad", "icon-40@2x-ipad.png"),
    Entry(PyInt(76), 1, "ipad", "icon-76.png"),
    Entry(PyInt(76), 2, "ipad", "icon-76@2x.png"),
    Entry(PyFloat(835), 2, "ipad", "icon-83.5@2x.png"),
    Entry(PyInt(1024), 1, "ios-marketing", "icon-1024.png") >>

NumIcons == Len(ICON_SIZES)

ContentsName == "Contents.json"

----------------------------------------------------------------------------
\* PIL image buffers

NoImage == [w |-> 0, h |-> 0, mode |-> "", hist |-> <<>>]

Op(name, w, h, mode) == [op |-> name, w |-> w, h |-> h, mode |-> mode]

\* Image.resize((w, h), LANCZOS): a new image of the given size, same mode.
Resize(img, w, h) ==
    [w |-> w, h |-> h, mode |-> img.mode,
     hist |-> Append(img.hist, Op("resize", w, h, img.mode))]

\* Image.convert(mode): a new image of the same size in the given mode.
Convert(img, mode) ==
    [w |-> img.w, h |-> img.h, mode |-> mode,
     hist |-> Append(img.hist, Op("convert", img.w, img.h, mode))]

----------------------------------------------------------------------------
\* The file system

\* Variant: the file is opened for appending.
WriteFile_append(d, name, item) ==
    [n \in (DOMAIN d) \cup {name} |->
        IF n = name
        THEN (IF name \in DOMAIN d THEN Append(d[name], item) ELSE <<item>>)
        ELSE d[n]]

\* open(path, "w") / Image.save(path): the file is truncated, then written.
WriteFile(d, name, item) ==
    [n \in (DOMAIN d) \cup {name} |-> IF n = name THEN <<item>> ELSE d[n]]

\* A write that failed after the open created or truncated the file: the
\* file is there and holds nothing whole.
TruncateFile(d, name) ==
    [n \in (DOMAIN d) \cup {name} |-> IF n = name THEN <<>> ELSE d[n]]

EmptyDisk == [n \in {} |-> <<>>]

StaleImage == [w |-> 1, h |-> 1, mode |-> "RGB", hist |-> <<>>]

\* What output_dir may hold before the first invocation.
PreDisks ==
    { EmptyDisk,
      [n \in {"notes.png"} |-> <<StaleImage>>],
      [n \in {"icon-29@2x.png", "Contents.json", "notes.png"} |->
          <<StaleImage>>] }

SrcSizes == { <<1024, 1024>>, <<512, 512>>, <<2048, 2048>>, <<800, 600>> }

SrcModes == { "RGBA", "RGB", "P" }

SrcFile(e, d, sz, m) ==
    [exists |-> e, decodable |-> d, w |-> sz[1], h |-> sz[2], mode |-> m]

\* The files source_path may name: none, one PIL cannot identify, one whose
\* header is sound and whose pixel data is damaged, or a sound image.
SrcFiles ==
    { SrcFile(FALSE, "none", <<0, 0>>, "") }
    \cup { SrcFile(TRUE, "bad_header", <<0, 0>>, "") }
    \cup { SrcFile(TRUE, "bad_data", <<512, 512>>, "RGB"),
           SrcFile(TRUE, "bad_data", <<1024, 1024>>, "RGB"),
           SrcFile(TRUE, "bad_data", <<1024, 1024>>, "RGBA") }
    \cup { SrcFile(TRUE, "ok", sz, "RGBA") : sz \in SrcSizes }
    \cup { SrcFile(TRUE, "ok", sz, m) :
               sz \in { <<1024, 1024>>, <<800, 600>> }, m \in SrcModes }

----------------------------------------------------------------------------
\* Pure steps of generate_icons

\* Variant: the table is walked from its last row to its first.
EntryAt_reversed(i) == ICON_SIZES[Len(ICON_SIZES) + 1 - i]

\* for size_pt, scale, idiom, filename in ICON_SIZES: the i-th iteration
EntryAt(i) == ICON_SIZES[i]

\* Variant: int(size_pt) * scale, the point size truncated before the product.
PixelSize_truncFirst(e) == (e.size_pt.tenths \div 10) * e.scale

\* pixel_size = int(size_pt * scale)
PixelSize(e) == (e.size_pt.tenths * e.scale) \div 10

\* Variant: only a source smaller than 1024 in some dimension is resized.
NeedsResize_smallOnly(img) == img.w < 1024 \/ img.h < 1024

\* if source.size != (1024, 1024)
NeedsResize(img) == <<img.w, img.h>> # <<1024, 1024>>

\* Variant: an RGB source is taken to need no conversion.
NeedsConvert_rgbOk(img) == img.mode \notin {"RGBA", "RGB"}

\* if source.mode != "RGBA"
NeedsConvert(img) == img.mode # "RGBA"

\* Variant: source = source.resize(...), each output resampled from the
\* previous one.
EntryStep_chained(src, e) ==
    [source |-> Resize(src, PixelSize(e), PixelSize(e)),
     resized |-> Resize(src, PixelSize(e), PixelSize(e))]

\* resized = source.resize((pixel_size, pixel_size), Image.LANCZOS):
\* the values of source and resized after the statement.
EntryStep(src, e) ==
    [source |-> src, resized |-> Resize(src, PixelSize(e), PixelSize(e))]

\* Variant: the size field built from the pixel size.
SizeStr_pixels(e) ==
    IntStr(PixelSize(e)) \o "x" \o IntStr(PixelSize(e))

\* "size": f"{size_pt}x{size_pt}" if size_pt == int(size_pt)
\*         else f"{size_pt}x{size_pt}"
SizeStr(e) ==
    IF e.size_pt.tenths % 10 = 0
    THEN PyStr(e.size_pt) \o "x" \o PyStr(e.size_pt)
    ELSE PyStr(e.size_pt) \o "x" \o PyStr(e.size_pt)

\* The dict appended to images_info.
ManifestEntry(e) ==
    [size |-> SizeStr(e), idiom |-> e.idiom, filename |-> e.filename,
     scale |-> IntStr(e.scale) \o "x"]

\* contents = {"images": images_info, "info": {...}}; json.dump writes this
\* document, keys in insertion order.
Contents(info) ==
    [images |-> info, info |-> [version |-> 1, author |-> "xcode"]]

GeneratedLine(e) ==
    "Generated: " \o e.filename \o " (" \o IntStr(PixelSize(e)) \o "x"
        \o IntStr(PixelSize(e)) \o ")"

WarningLine(img) ==
    "Warning: Source image is (" \o IntStr(img.w) \o ", " \o IntStr(img.h)
        \o "), resizing to 1024x1024"

WriteRec(name, ok) == [name |-> name, ok |-> ok]

OkWrites(log) == { i \in 1..Len(log) : log[i].ok }

----------------------------------------------------------------------------
DirConfig(st, par, cre, d) ==
    [dirState |-> st, parentExists |-> par, canCreate |-> cre, disk |-> d]

\* output_dir before the first invocation: missing (with or without its
\* parent, creatable or not), a regular file, or a directory holding files.
DirConfigs ==
    { DirConfig("absent", par, cre, EmptyDisk) : par \in BOOLEAN,
                                                  cre \in BOOLEAN }
    \cup { DirConfig("file", TRUE, TRUE, EmptyDisk) }
    \cup { DirConfig("dir", TRUE, TRUE, d) : d \in PreDisks }

FreshDir == DirConfig("absent", FALSE, TRUE, EmptyDisk)

\* The arguments and the file system of a behaviour: every source file
\* with a fresh output directory, and a missing source and a sound one
\* with every state of the output directory.
Inputs ==
    (SrcFiles \X {FreshDir})
    \cup ({ SrcFile(FALSE, "none", <<0, 0>>, ""),
            SrcFile(TRUE, "ok", <<800, 600>>, "RGB") } \X DirConfigs)

Init ==
    /\ \E inp \in Inputs :
          /\ srcFile = inp[1]
          /\ dirState = inp[2].dirState
          /\ parentExists = inp[2].parentExists
          /\ canCreate = inp[2].canCreate
          /\ disk = inp[2].disk
    /\ pc = "main"
    /\ run = 1
    /\ source = NoImage
    /\ srcLoaded = FALSE
    /\ k = 1
    /\ resized = NoImage
    /\ images_info = <<>>
    /\ stdout = <<>>
    /\ writeLog = <<>>
    /\ exitStatus = -1
    /\ abortAt = ""
    /\ faults = 0
    /\ startDisk = disk
    /\ startDir = dirState
    /\ firstDone = <<>>
    /\ outcomes = <<>>

fsVars == <<srcFile, parentExists, dirState, canCreate, disk>>
histVars == <<run, faults, startDisk, startDir, firstDone, outcomes>>
localVars == <<source, srcLoaded, k, resized, images_info>>

\* An exception nobody catches: traceback, exit status 1.
Raise(where) ==
    /\ pc' = "aborted"
    /\ abortAt' = where
    /\ exitStatus' = 1

----------------------------------------------------------------------------
\* __main__

\* Variant: no existence check, generate_icons is called regardless.
MainMissing_noCheck ==
    /\ pc = "main"
    /\ ~srcFile.exists
    /\ pc' = "makedirs"
    /\ UNCHANGED <<fsVars, histVars, localVars, stdout, writeLog, exitStatus,
                   abortAt>>

\* if not os.path.exists(source_path): print error, usage; sys.exit(1)
MainMissing ==
    /\ pc = "main"
    /\ ~srcFile.exists
    /\ stdout' = stdout \o <<"Error: Source image not found", "Usage">>
    /\ exitStatus' = 1
    /\ pc' = "exited"
    /\ UNCHANGED <<fsVars, histVars, localVars, writeLog, abortAt>>

\* generate_icons(source_path, output_dir)
MainCall ==
    /\ pc = "main"
    /\ srcFile.exists
    /\ pc' = "makedirs"
    /\ UNCHANGED <<fsVars, histVars, localVars, stdout, writeLog, exitStatus,
                   abortAt>>

----------------------------------------------------------------------------
\* generate_icons

\* Variant: os.mkdir(output_dir), no parents created and an existing
\* directory is an error.
MakeDirs_mkdir ==
    /\ pc = "makedirs"
    /\ IF dirState = "absent" /\ canCreate /\ parentExists
       THEN /\ dirState' = "dir"
            /\ pc' = "open"
            /\ UNCHANGED <<parentExists, abortAt, exitStatus>>
       ELSE /\ Raise("makedirs")
            /\ UNCHANGED <<dirState, parentExists>>
    /\ UNCHANGED <<srcFile, canCreate, disk, histVars, localVars, stdout,
                   writeLog>>

\* os.makedirs(output_dir, exist_ok=True)
MakeDirs ==
    /\ pc = "makedirs"
    /\ \/ /\ dirState = "dir"
          /\ pc' = "open"
          /\ UNCHANGED <<dirState, parentExists, abortAt, exitStatus>>
       \/ /\ dirState = "absent"
          /\ canCreate
          /\ dirState' = "dir"
          /\ parentExists' = TRUE
          /\ pc' = "open"
          /\ UNCHANGED <<abortAt, exitStatus>>
       \/ /\ \/ dirState = "file"
             \/ dirState = "absent" /\ ~canCreate
          /\ Raise("makedirs")
          /\ UNCHANGED <<dirState, parentExists>>
    /\ UNCHANGED <<srcFile, canCreate, disk, histVars, localVars, stdout,
                   writeLog>>

\* source = Image.open(source_path): reads the header only
OpenSource ==
    /\ pc = "open"
    /\ IF srcFile.exists /\ srcFile.decodable \in {"ok", "bad_data"}
       THEN /\ source' = [w |-> srcFile.w, h |-> srcFile.h,
                          mode |-> srcFile.mode, hist |-> <<>>]
            /\ pc' = "check_size"
            /\ UNCHANGED <<abortAt, exitStatus>>
       ELSE /\ Raise("open")
            /\ UNCHANGED source
    /\ UNCHANGED <<fsVars, histVars, srcLoaded, k, resized, images_info,
                   stdout, writeLog>>

\* The pixel data can be read when an operation first needs it.
CanLoad == srcLoaded \/ srcFile.decodable = "ok"

\* if source.size != (1024, 1024): print warning; source = source.resize(...)
NormalizeSize ==
    /\ pc = "check_size"
    /\ IF NeedsResize(source)
       THEN /\ stdout' = Append(stdout, WarningLine(source))
            /\ IF CanLoad
               THEN /\ source' = Resize(source, 1024, 1024)
                    /\ srcLoaded' = TRUE
                    /\ pc' = "check_mode"
                    /\ UNCHANGED <<abortAt, exitStatus>>
               ELSE /\ Raise("resize")
                    /\ UNCHANGED <<source, srcLoaded>>
       ELSE /\ pc' = "check_mode"
            /\ UNCHANGED <<source, srcLoaded, stdout, abortAt, exitStatus>>
    /\ UNCHANGED <<fsVars, histVars, k, resized, images_info, writeLog>>

\* if source.mode != "RGBA": source = source.convert("RGBA")
ConvertMode ==
    /\ pc = "check_mode"
    /\ IF NeedsConvert(source)
       THEN IF CanLoad
            THEN /\ source' = Convert(source, "RGBA")
                 /\ srcLoaded' = TRUE
                 /\ pc' = "loop"
                 /\ UNCHANGED <<abortAt, exitStatus>>
            ELSE /\ Raise("convert")
                 /\ UNCHANGED <<source, srcLoaded>>
       ELSE /\ pc' = "loop"
            /\ UNCHANGED <<source, srcLoaded, abortAt, exitStatus>>
    /\ UNCHANGED <<fsVars, histVars, k, resized, images_info, stdout,
                   writeLog>>

\* The environment may fail a write while it has failures left to inject; a
\* write into a directory that does not exist always fails.
MayFail == faults < MaxFaults

\* One loop iteration whose resize cannot read the pixel data of the file:
\* source.resize raises.
EntryLoadFails ==
    /\ pc = "loop"
    /\ ~CanLoad
    /\ Raise("resize")
    /\ UNCHANGED <<fsVars, histVars, localVars, stdout, writeLog>>

\* One loop iteration that runs to its end: resize, save, print, append.
EntrySaved ==
    /\ pc = "loop"
    /\ CanLoad
    /\ dirState = "dir"
    /\ LET e == EntryAt(k)
           s == EntryStep(source, e)
       IN /\ source' = s.source
          /\ resized' = s.resized
          /\ srcLoaded' = TRUE
          /\ disk' = WriteFile(disk, e.filename, s.resized)
          /\ writeLog' = Append(writeLog, WriteRec(e.filename, TRUE))
          /\ stdout' = Append(stdout, GeneratedLine(e))
          /\ images_info' = Append(images_info, ManifestEntry(e))
    /\ k' = k + 1
    /\ pc' = IF k = NumIcons THEN "contents" ELSE "loop"
    /\ UNCHANGED <<srcFile, parentExists, dirState, canCreate, histVars,
                   exitStatus, abortAt>>

\* Variant: the save is wrapped in try/except and the loop goes on.
EntrySaveFails_swallowed ==
    /\ pc = "loop"
    /\ CanLoad
    /\ dirState = "dir"
    /\ MayFail
    /\ LET e == EntryAt(k)
           s == EntryStep(source, e)
       IN /\ source' = s.source
          /\ resized' = s.resized
          /\ srcLoaded' = TRUE
          /\ writeLog' = Append(writeLog, WriteRec(e.filename, FALSE))
          /\ images_info' = Append(images_info, ManifestEntry(e))
          /\ disk' \in {disk, TruncateFile(disk, e.filename)}
    /\ faults' = faults + 1
    /\ k' = k + 1
    /\ pc' = IF k = NumIcons THEN "contents" ELSE "loop"
    /\ UNCHANGED <<srcFile, parentExists, dirState, canCreate, run, startDisk,
                   startDir, firstDone, outcomes, stdout, exitStatus, abortAt>>

\* One loop iteration whose resized.save raises: either the disk is as it
\* was (the open failed, or PIL removed the file it had just created), or
\* the file is left behind truncated.
EntrySaveFails ==
    /\ pc = "loop"
    /\ CanLoad
    /\ LET e == EntryAt(k)
           s == EntryStep(source, e)
       IN /\ source' = s.source
          /\ resized' = s.resized
          /\ srcLoaded' = TRUE
          /\ writeLog' = Append(writeLog, WriteRec(e.filename, FALSE))
          /\ \/ /\ dirState # "dir"
                /\ UNCHANGED <<disk, faults>>
             \/ /\ dirState = "dir"
                /\ MayFail
                /\ faults' = faults + 1
                /\ disk' \in {disk, TruncateFile(disk, e.filename)}
    /\ Raise("save")
    /\ UNCHANGED <<srcFile, parentExists, dirState, canCreate, run, startDisk,
                   startDir, firstDone, outcomes, k, images_info, stdout>>

\* with open(contents_path, "w") as f: json.dump(contents, f, indent=2);
\* the two closing prints; the process ends with status 0.
WriteContents ==
    /\ pc = "contents"
    /\ dirState = "dir"
    /\ disk' = WriteFile(disk, ContentsName, Contents(images_info))
    /\ writeLog' = Append(writeLog, WriteRec(ContentsName, TRUE))
    /\ stdout' = stdout \o <<"Generated: Contents.json", "Done!">>
    /\ exitStatus' = 0
    /\ pc' = "done"
    /\ firstDone' = IF firstDone = <<>> THEN <<disk'>> ELSE firstDone
    /\ UNCHANGED <<srcFile, parentExists, dirState, canCreate, run, faults,
                   startDisk, startDir, outcomes, localVars, abortAt>>

\* open raises (disk unchanged) or json.dump raises (the file is left
\* behind truncated).
ContentsFails ==
    /\ pc = "contents"
    /\ writeLog' = Append(writeLog, WriteRec(ContentsName, FALSE))
    /\ \/ /\ dirState # "dir"
          /\ UNCHANGED <<disk, faults>>
       \/ /\ dirState = "dir"
          /\ MayFail
          /\ faults' = faults + 1
          /\ disk' \in {disk, TruncateFile(disk, ContentsName)}
    /\ Raise("contents")
    /\ UNCHANGED <<srcFile, parentExists, dirState, canCreate, run, startDisk,
                   startDir, firstDone, outcomes, localVars, stdout>>

----------------------------------------------------------------------------
Terminated == pc \in {"done", "exited", "aborted"}

\* The operator runs the script again with the same arguments.
Rerun ==
    /\ Terminated
    /\ run < MaxRuns
    /\ run' = run + 1
    /\ outcomes' = Append(outcomes,
                          [result |-> pc, at |-> abortAt,
                           writes |-> Cardinality(OkWrites(writeLog))])
    /\ startDisk' = disk
    /\ startDir' = dirState
    /\ pc' = "main"
    /\ source' = NoImage
    /\ srcLoaded' = FALSE
    /\ k' = 1
    /\ resized' = NoImage
    /\ images_info' = <<>>
    /\ stdout' = <<>>
    /\ writeLog' = <<>>
    /\ exitStatus' = -1
    /\ abortAt' = ""
    /\ UNCHANGED <<fsVars, faults, firstDone>>

Next ==
    \/ MainMissing
    \/ MainCall
    \/ MakeDirs
    \/ OpenSource
    \/ NormalizeSize
    \/ ConvertMode
    \/ EntryLoadFails
    \/ EntrySaved
    \/ EntrySaveFails
    \/ WriteContents
    \/ ContentsFails
    \/ Rerun

Spec == Init /\ [][Next]_vars

----------------------------------------------------------------------------
TypeOK ==
    /\ pc \in {"main", "makedirs", "open", "check_size", "check_mode", "loop",
               "contents", "done", "exited", "aborted"}
    /\ run \in 1..MaxRuns
    /\ k \in 1..(NumIcons + 1)
    /\ exitStatus \in {-1, 0, 1}
    /\ faults \in 0..MaxFaults

----------------------------------------------------------------------------
\* Properties

Rows == 1..NumIcons

TableNames == { ICON_SIZES[i].filename : i \in Rows }

OutNames == TableNames \cup {ContentsName}

\* floor(sizePoints * scale) of each row, in table order.
ExpectedPixels ==
    << 40, 60, 58, 87, 80, 120, 120, 180, 20, 40, 29, 58, 40, 80, 76, 152,
       167, 1024 >>

\* The size field of each row, in table order.
ExpectedSizes ==
    << "20x20", "20x20", "29x29", "29x29", "40x40", "40x40", "60x60",
       "60x60", "20x20", "20x20", "29x29", "29x29", "40x40", "40x40",
       "76x76", "76x76", "83.5x83.5", "1024x1024" >>

\* The scale field of each row, in table order.
ExpectedScales ==
    << "2x", "3x", "2x", "3x", "2x", "3x", "2x", "3x", "1x", "2x", "1x",
       "2x", "1x", "2x", "1x", "2x", "2x", "1x" >>

\* The names the invocation has written so far, failed attempts included.
LogNames == [i \in 1..Len(writeLog) |-> writeLog[i].name]

WrittenNames == { writeLog[i].name : i \in OkWrites(writeLog) }

\* File n holds exactly one square image of edge px.
HoldsSquare(n, px) ==
    /\ n \in DOMAIN disk
    /\ Len(disk[n]) = 1
    /\ disk[n][1].w = px
    /\ disk[n][1].h = px

\* The printed lines that are the size warning (it names the size of the
\* file).
Warnings == { i \in 1..Len(stdout) : stdout[i] = WarningLine(srcFile) }

\* The operations that turn the decoded file into the normalized buffer:
\* the resize to 1024x1024 when the size differs, then the conversion to
\* RGBA when the mode differs.
NormHist ==
    (IF <<srcFile.w, srcFile.h>> # <<1024, 1024>>
     THEN << Op("resize", 1024, 1024, srcFile.mode) >> ELSE << >>)
    \o (IF srcFile.mode # "RGBA"
        THEN << Op("convert", 1024, 1024, "RGBA") >> ELSE << >>)

\* C1: a completed run has written exactly the 18 table file names (all
\* distinct, none of them Contents.json) besides Contents.json, output_dir
\* holds them next to whatever other files it held before, and the file of
\* each row is one square image of edge floor(sizePoints * scale); the row
\* (83.5, 2) gives 167.
C1_OutputFiles ==
    pc = "done" =>
        /\ Cardinality(TableNames) = 18
        /\ ContentsName \notin TableNames
        /\ WrittenNames \ {ContentsName} = TableNames
        /\ DOMAIN disk = (DOMAIN startDisk) \cup OutNames
        /\ startDisk = EmptyDisk => (DOMAIN disk) \ {ContentsName} = TableNames
        /\ \A i \in Rows :
              /\ ExpectedPixels[i] * 10 <= ICON_SIZES[i].size_pt.tenths
                                              * ICON_SIZES[i].scale
              /\ ICON_SIZES[i].size_pt.tenths * ICON_SIZES[i].scale
                    < (ExpectedPixels[i] + 1) * 10
              /\ HoldsSquare(ICON_SIZES[i].filename, ExpectedPixels[i])
        /\ HoldsSquare("icon-83.5@2x.png", 167)

C1_Witness ==
    /\ pc = "done"
    /\ startDisk = EmptyDisk
    /\ HoldsSquare("icon-83.5@2x.png", 167)
    /\ HoldsSquare("icon-60@3x.png", 180)

\* C2: after a completed run Contents.json holds one document whose images
\* array has 18 entries, entry i carrying row i's file name and idiom, the
\* scale as "{scale}x" and the size as "{points}x{points}" (no decimal point
\* for a whole point size, the fraction kept otherwise), and whose info is
\* {version: 1, author: "xcode"}.
C2_Manifest ==
    pc = "done" =>
        /\ ContentsName \in DOMAIN disk
        /\ Len(disk[ContentsName]) = 1
        /\ LET doc == disk[ContentsName][1]
           IN /\ Len(doc.images) = 18
              /\ \A i \in Rows :
                    doc.images[i] =
                        [size |-> ExpectedSizes[i],
                         idiom |-> ICON_SIZES[i].idiom,
                         filename |-> ICON_SIZES[i].filename,
                         scale |-> ExpectedScales[i]]
              /\ doc.info = [version |-> 1, author |-> "xcode"]

C2_Witness ==
    /\ pc = "done"
    /\ disk[ContentsName][1].images[8].size = "60x60"
    /\ disk[ContentsName][1].images[17].size = "83.5x83.5"
    /\ disk[ContentsName][1].images[17].filename = "icon-83.5@2x.png"

\* C3: with no file at source_path the process never enters
\* generate_icons; it ends with status 1 having written nothing, with
\* output_dir neither created nor changed.
C3_MissingSource ==
    ~srcFile.exists =>
        /\ pc \in {"main", "exited"}
        /\ writeLog = <<>>
        /\ disk = startDisk
        /\ dirState = startDir
        /\ source = NoImage
        /\ pc = "exited" => exitStatus = 1
        /\ pc = "main" => exitStatus = -1

C3_Witness ==
    /\ ~srcFile.exists
    /\ pc = "exited"
    /\ exitStatus = 1
    /\ "icon-29@2x.png" \in DOMAIN disk
    /\ disk["icon-29@2x.png"] = <<StaleImage>>

\* C4: a sound source of any size never makes the run fail (only the file
\* system can); the warning is printed once when the size is not 1024x1024
\* and never when it is; and a completed run has written the same files
\* with the same pixel sizes whatever the size of the source.
C4_AnySourceSize ==
    srcFile.decodable = "ok" =>
        /\ pc = "aborted" => abortAt \in {"makedirs", "save", "contents"}
        /\ pc \in {"check_mode", "loop", "contents", "done"} =>
              Cardinality(Warnings) =
                  (IF <<srcFile.w, srcFile.h>> = <<1024, 1024>> THEN 0 ELSE 1)
        /\ pc = "done" =>
              /\ exitStatus = 0
              /\ WrittenNames = OutNames
              /\ \A i \in Rows :
                    HoldsSquare(ICON_SIZES[i].filename, ExpectedPixels[i])

C4_Witness ==
    /\ pc = "done"
    /\ srcFile.w = 800
    /\ srcFile.h = 600
    /\ Cardinality(Warnings) = 1
    /\ HoldsSquare("icon-1024.png", 1024)

\* C5: a failed PNG write is the last thing its run does: the run is
\* aborted at the save of that row, the row was tried once, the loop index
\* has not moved on, the files of the rows before it hold their new images,
\* and Contents.json and the files of the rows after it are as they were
\* when the run started.
C5_AbortOnWriteFailure ==
    \A i \in 1..Len(writeLog) :
        (~writeLog[i].ok /\ writeLog[i].name # ContentsName) =>
            /\ i = Len(writeLog)
            /\ pc = "aborted"
            /\ abortAt = "save"
            /\ exitStatus = 1
            /\ k = i
            /\ writeLog[i].name = ICON_SIZES[i].filename
            /\ \A j \in 1..(i - 1) :
                  /\ writeLog[j] = WriteRec(ICON_SIZES[j].filename, TRUE)
                  /\ HoldsSquare(ICON_SIZES[j].filename, ExpectedPixels[j])
            /\ \A n \in OutNames \ { ICON_SIZES[j].filename : j \in 1..i } :
                  /\ n \in DOMAIN disk <=> n \in DOMAIN startDisk
                  /\ n \in DOMAIN disk => disk[n] = startDisk[n]

C5_Witness ==
    /\ pc = "aborted"
    /\ abortAt = "save"
    /\ Len(writeLog) = 5
    /\ ~writeLog[5].ok
    /\ HoldsSquare("icon-29@3x.png", 87)
    /\ "icon-40@3x.png" \notin DOMAIN disk
    /\ ContentsName \in DOMAIN disk
    /\ disk[ContentsName] = <<StaleImage>>

\* C6: output_dir and its parent exist from the end of makedirs on, hence
\* before any write is attempted; makedirs fails only when output_dir is
\* not a directory and cannot be made one (never when it already is one),
\* and then nothing is written.
C6_DirectoryFirst ==
    /\ pc \in {"open", "check_size", "check_mode", "loop", "contents", "done"}
          => dirState = "dir" /\ parentExists
    /\ writeLog # <<>> => dirState = "dir" /\ parentExists
    /\ (pc = "aborted" /\ abortAt = "makedirs") =>
          /\ startDir = "file" \/ (startDir = "absent" /\ ~canCreate)
          /\ dirState = startDir
          /\ writeLog = <<>>
          /\ disk = startDisk
    /\ (pc = "aborted" /\ abortAt # "makedirs") => dirState = "dir"

C6_Witness ==
    /\ run = 1
    /\ startDir = "absent"
    /\ dirState = "dir"
    /\ parentExists
    /\ pc = "loop"
    /\ writeLog = <<>>

C6_WitnessUncreatable ==
    /\ pc = "aborted"
    /\ abortAt = "makedirs"
    /\ startDir = "absent"

\* C7: every completed run writes each of the 19 output paths once and
\* leaves each holding just what this run wrote; output_dir then holds the
\* files it held at the start plus the 19 outputs, with the pixel sizes and
\* the manifest of a first run; and it is left exactly as the first
\* completed run left it, whether or not aborted runs came in between.
C7_Idempotent ==
    pc = "done" =>
        /\ Len(writeLog) = 19
        /\ WrittenNames = OutNames
        /\ DOMAIN disk = (DOMAIN startDisk) \cup OutNames
        /\ \A n \in (DOMAIN startDisk) \ OutNames : disk[n] = startDisk[n]
        /\ \A i \in Rows :
              HoldsSquare(ICON_SIZES[i].filename, ExpectedPixels[i])
        /\ disk[ContentsName] = << Contents(images_info) >>
        /\ firstDone = << disk >>

C7_Witness ==
    /\ pc = "done"
    /\ run = 2
    /\ outcomes[1].result = "done"
    /\ firstDone = << disk >>
    /\ startDisk = disk

C7_WitnessAfterAbort ==
    /\ pc = "done"
    /\ run = 2
    /\ outcomes[1].result = "aborted"
    /\ outcomes[1].at = "save"
    /\ outcomes[1].writes = 9
    /\ startDisk # disk

\* C8: the writes of a run follow the table order with Contents.json last:
\* what has been written so far is always a prefix of that order, and
\* Contents.json is not touched before the 18 PNG files have been written.
WriteOrder ==
    [i \in 1..(NumIcons + 1) |->
        IF i <= NumIcons THEN ICON_SIZES[i].filename ELSE ContentsName]

C8_WriteOrder ==
    /\ Len(writeLog) <= NumIcons + 1
    /\ LogNames = SubSeq(WriteOrder, 1, Len(writeLog))
    /\ ContentsName \in WrittenNames => pc = "done"
    /\ pc \in {"main", "makedirs", "open", "check_size", "check_mode", "loop",
               "contents"} =>
          /\ ContentsName \in DOMAIN disk <=> ContentsName \in DOMAIN startDisk
          /\ ContentsName \in DOMAIN disk =>
                disk[ContentsName] = startDisk[ContentsName]
    /\ pc = "contents" => Cardinality(OkWrites(writeLog)) = NumIcons

C8_Witness ==
    /\ pc = "done"
    /\ Len(writeLog) = 19
    /\ writeLog[1].name = "icon-20@2x.png"
    /\ writeLog[18].name = "icon-1024.png"
    /\ writeLog[19].name = "Contents.json"

\* C9: through the whole loop source is the normalized buffer (1024x1024,
\* RGBA, produced by the normalization steps alone), and every image
\* written is one resize away from it.
C9_ResampleFromSource ==
    pc \in {"loop", "contents", "done"} =>
        /\ source = [w |-> 1024, h |-> 1024, mode |-> "RGBA",
                     hist |-> NormHist]
        /\ \A i \in OkWrites(writeLog) :
              i <= NumIcons =>
                  disk[ICON_SIZES[i].filename] =
                      << [w |-> ExpectedPixels[i], h |-> ExpectedPixels[i],
                          mode |-> "RGBA",
                          hist |-> Append(NormHist,
                                          Op("resize", ExpectedPixels[i],
                                             ExpectedPixels[i], "RGBA"))] >>

C9_Witness ==
    /\ pc = "loop"
    /\ k = 18
    /\ Len(source.hist) = 2
    /\ Len(disk["icon-83.5@2x.png"][1].hist) = 3

\* C10: when the loop starts the buffer is 1024x1024 RGBA whatever the
\* source was; the size is normalized before the mode is looked at (at the
\* mode check the buffer is 1024x1024 and still in the mode of the file);
\* and a 1024x1024 RGBA source reaches the loop with no operation applied.
C10_Normalized ==
    /\ pc = "check_mode" =>
          /\ source.w = 1024
          /\ source.h = 1024
          /\ source.mode = srcFile.mode
          /\ \A i \in 1..Len(source.hist) : source.hist[i].op = "resize"
    /\ (pc = "loop" /\ k = 1) =>
          /\ source.w = 1024
          /\ source.h = 1024
          /\ source.mode = "RGBA"
          /\ source.hist = NormHist
          /\ (<<srcFile.w, srcFile.h>> = <<1024, 1024>>
                  /\ srcFile.mode = "RGBA") => source.hist = << >>

C10_Witness ==
    /\ pc = "loop"
    /\ k = 1
    /\ srcFile.w = 800
    /\ srcFile.mode = "P"
    /\ source.mode = "RGBA"
    /\ Len(source.hist) = 2

C10_WitnessPassThrough ==
    /\ pc = "loop"
    /\ k = 1
    /\ srcFile.w = 1024
    /\ srcFile.h = 1024
    /\ srcFile.mode = "RGBA"
    /\ source.hist = << >>

====
